---- MODULE Spec2Model ----
(***************************************************************************)
(* Model of src/src/lib.rs: the Voltcraft binary decoder (VoltcraftData)   *)
(* and the statistics engine (VoltcraftStatistics).                        *)
(*                                                                         *)
(* Representation.                                                         *)
(*  - A byte buffer is a sequence of 0..255; the byte at Rust offset o is  *)
(*    raw_data[o + 1].                                                     *)
(*  - A DateTime<Local> is the number of minutes since 2000-01-01 00:00    *)
(*    local time (the decoder only builds whole minutes); a Duration is a  *)
(*    number of minutes; a Date<Local> is the number of days since         *)
(*    2000-01-01.  The host time zone is taken to have a fixed offset,     *)
(*    except that the construction of the base time may fail (tz_single).  *)
(*  - The f64 fields are kept as the exact integers they are scaled from:  *)
(*    voltage in 1/10 V, current in 1/1000 A, power_factor in 1/100,       *)
(*    power in 1e-9 kW (= raw voltage * raw current * raw power factor),   *)
(*    apparent_power in 1e-7 kVA (= raw voltage * raw current).  A         *)
(*    quotient (total, average) is kept as the pair numerator/denominator. *)
(*  - A Rust panic (slice or index out of range, unwrap of None, chrono's  *)
(*    "no such local time") is the outcome kind "Panic": the call returns  *)
(*    no value.                                                            *)
(***************************************************************************)
EXTENDS Integers, Sequences, FiniteSets

VARIABLES
    raw_data,          \* VoltcraftData.raw_data
    tz_single,         \* host time zone: the base local time maps to one instant
    pc,                \* position of parse(): "ready", "loop", "returned"
    offset,            \* parse(): local offset
    start_time,        \* parse(): local start_time (NoTime before it is decoded)
    minute_increment,  \* parse(): local minute_increment
    result,            \* parse(): local result
    parse_ret,         \* what parse() returned
    has_stats,         \* a VoltcraftStatistics has been constructed
    power_data,        \* VoltcraftStatistics.power_data
    stats_call,        \* the last statistics accessor called
    stats_ret          \* what it returned

vars == <<raw_data, tz_single, pc, offset, start_time, minute_increment, result,
          parse_ret, has_stats, power_data, stats_call, stats_ret>>

decoder_vars == <<raw_data, tz_single, pc, offset, start_time, minute_increment,
                  result, parse_ret>>

-----------------------------------------------------------------------------
(* Constants of the format *)

MAGIC_NUMBER == <<224, 197, 234>>

END_OF_DATA == <<255, 255, 255, 255>>

NoTime == -1

INVALID_DATA == "Invalid data (not a Voltcraft file)"

-----------------------------------------------------------------------------
(* Slices and the calendar *)

\* &data[a..b]: defined (no panic) iff a <= b <= len
SliceOk(data, a, b) == a <= b /\ b <= Len(data)

Slice(data, a, b) == SubSeq(data, a + 1, b)

\* data[i]: defined iff i < len
IndexOk(data, i) == i < Len(data)

Byte(data, i) == data[i + 1]

IsLeap(y) == (y % 4 = 0) /\ ((y % 100 # 0) \/ (y % 400 = 0))

DaysInMonth(y, m) ==
    IF m = 2 THEN (IF IsLeap(y) THEN 29 ELSE 28)
    ELSE IF m \in {4, 6, 9, 11} THEN 30 ELSE 31

\* days in the months of year y before month m
RECURSIVE DaysBeforeMonth(_, _)
DaysBeforeMonth(y, m) ==
    IF m <= 1 THEN 0 ELSE DaysBeforeMonth(y, m - 1) + DaysInMonth(y, m - 1)

\* days from 2000-01-01 to y-01-01, y >= 2000
DaysBeforeYear(y) ==
    LET j == y - 2000
    IN  365 * j + ((j + 3) \div 4) - ((j + 99) \div 100) + ((j + 399) \div 400)

MinutesPerDay == 24 * 60

\* Local.ymd(y, m, d): a date of the calendar, else chrono panics
ymd_ok(y, m, d) == m \in 1..12 /\ d >= 1 /\ d <= DaysInMonth(y, m)

\* .and_hms(h, mi, 0): a time of the day, else chrono panics
and_hms_ok(h, mi) == h < 24 /\ mi < 60

ymd_and_hms(y, m, d, h, mi) ==
    (DaysBeforeYear(y) + DaysBeforeMonth(y, m) + (d - 1)) * MinutesPerDay
        + 60 * h + mi

\* DateTime::date()
date(ts) == ts \div MinutesPerDay

-----------------------------------------------------------------------------
(* VoltcraftData *)

\* is_valid: the slice &raw_data[0..3] panics on a buffer shorter than 3 bytes
is_valid_panics(data) == ~SliceOk(data, 0, 3)

\* faulty variant of is_valid: only the first two bytes of the marker are compared
is_valid_two_bytes(data) == Slice(data, 0, 2) = SubSeq(MAGIC_NUMBER, 1, 2)

is_valid(data) == Slice(data, 0, 3) = MAGIC_NUMBER

\* is_endofdata: the slice &raw_data[off..off + 4] panics past the end
is_endofdata_panics(data, off) == ~SliceOk(data, off, off + 4)

\* faulty variant of is_endofdata: only the first two bytes of the marker are compared
is_endofdata_two_bytes(data, off) == Slice(data, off, off + 2) = SubSeq(END_OF_DATA, 1, 2)

is_endofdata(data, off) == Slice(data, off, off + 4) = END_OF_DATA

\* decode_timestamp: five indexed reads, then chrono's constructors; each panics
\* on what it cannot read or build
decode_timestamp_panics(data, off, tz) ==
    \/ ~IndexOk(data, off + 4)
    \/ ~ymd_ok(Byte(data, off + 2) + 2000, Byte(data, off + 0), Byte(data, off + 1))
    \/ ~and_hms_ok(Byte(data, off + 3), Byte(data, off + 4))
    \/ ~tz

decode_timestamp(data, off) ==
    LET month  == Byte(data, off + 0)
        day    == Byte(data, off + 1)
        year   == Byte(data, off + 2)
        hour   == Byte(data, off + 3)
        minute == Byte(data, off + 4)
    IN  ymd_and_hms(year + 2000, month, day, hour, minute)

\* u16::from_be_bytes
from_be_bytes(b) == 256 * b[1] + b[2]

\* decode_power: two 2-byte slices and one indexed read
decode_power_panics(data, off) ==
    \/ ~SliceOk(data, off, off + 2)
    \/ ~SliceOk(data, off + 2, off + 4)
    \/ ~IndexOk(data, off + 4)

decode_power(data, off) ==
    LET voltage      == from_be_bytes(Slice(data, off, off + 2))
        current      == from_be_bytes(Slice(data, off + 2, off + 4))
        power_factor == Byte(data, off + 4)
    IN  [voltage        |-> voltage,
         current        |-> current,
         power_factor   |-> power_factor,
         power          |-> voltage * current * power_factor,
         apparent_power |-> voltage * current]

PowerEvent(ts, pw) ==
    [timestamp      |-> ts,
     voltage        |-> pw.voltage,
     current        |-> pw.current,
     power_factor   |-> pw.power_factor,
     power          |-> pw.power,
     apparent_power |-> pw.apparent_power]

\* faulty variant of power_timestamp: the minute increment is left out
power_timestamp_fixed(start, inc) == start

\* faulty variant of power_timestamp: the records are taken two minutes apart
power_timestamp_two_minutes(start, inc) == start + 2 * inc

\* start_time + Duration::minutes(minute_increment)
power_timestamp(start, inc) == start + inc

Ok(v) == [kind |-> "Ok", value |-> v, msg |-> ""]

Err(m) == [kind |-> "Err", value |-> <<>>, msg |-> m]

Panic == [kind |-> "Panic", value |-> <<>>, msg |-> ""]

NotCalled == [kind |-> "None", value |-> <<>>, msg |-> ""]

\* parse(), lines 37-49: the validity check, the base timestamp, offset = 8
ParseBegin ==
    /\ pc = "ready"
    /\ IF is_valid_panics(raw_data)
       THEN /\ pc' = "returned"
            /\ parse_ret' = Panic
            /\ UNCHANGED <<offset, start_time, minute_increment>>
       ELSE IF ~is_valid(raw_data)
       THEN /\ pc' = "returned"
            /\ parse_ret' = Err(INVALID_DATA)
            /\ UNCHANGED <<offset, start_time, minute_increment>>
       ELSE IF decode_timestamp_panics(raw_data, Len(MAGIC_NUMBER), tz_single)
       THEN /\ pc' = "returned"
            /\ parse_ret' = Panic
            /\ offset' = Len(MAGIC_NUMBER)
            /\ UNCHANGED <<start_time, minute_increment>>
       ELSE /\ pc' = "loop"
            /\ start_time' = decode_timestamp(raw_data, Len(MAGIC_NUMBER))
            /\ minute_increment' = 0
            /\ offset' = Len(MAGIC_NUMBER) + 5
            /\ UNCHANGED parse_ret
    /\ UNCHANGED <<raw_data, tz_single, result, has_stats, power_data,
                   stats_call, stats_ret>>

\* parse(), lines 52-69: one turn of the loop, or the return that ends it
ParseLoop ==
    /\ pc = "loop"
    /\ IF is_endofdata_panics(raw_data, offset)
       THEN /\ pc' = "returned"
            /\ parse_ret' = Panic
            /\ UNCHANGED <<offset, minute_increment, result>>
       ELSE IF is_endofdata(raw_data, offset)
       THEN /\ pc' = "returned"
            /\ parse_ret' = Ok(result)
            /\ UNCHANGED <<offset, minute_increment, result>>
       ELSE IF decode_power_panics(raw_data, offset)
       THEN /\ pc' = "returned"
            /\ parse_ret' = Panic
            /\ UNCHANGED <<offset, minute_increment, result>>
       ELSE /\ result' = Append(result,
                    PowerEvent(power_timestamp(start_time, minute_increment),
                               decode_power(raw_data, offset)))
            /\ minute_increment' = minute_increment + 1
            /\ offset' = offset + 5
            /\ UNCHANGED <<pc, parse_ret>>
    /\ UNCHANGED <<raw_data, tz_single, start_time, has_stats, power_data,
                   stats_call, stats_ret>>

-----------------------------------------------------------------------------
(* VoltcraftStatistics *)

Ratio(n, d) == [num |-> n, den |-> d]

\* iter().fold(0, |sum, x| sum + x[field])
RECURSIVE fold_sum(_, _)
fold_sum(items, field) ==
    IF items = <<>> THEN 0
    ELSE fold_sum(SubSeq(items, 1, Len(items) - 1), field) + items[Len(items)][field]

\* faulty variant of max_by: the first of several equal maxima is kept
RECURSIVE max_by_first(_, _)
max_by_first(items, field) ==
    IF Len(items) <= 1 THEN Len(items)
    ELSE LET x == max_by_first(SubSeq(items, 1, Len(items) - 1), field)
             y == Len(items)
         IN  IF items[x][field] >= items[y][field] THEN x ELSE y

\* Iterator::max_by on the field: the index (from 1) of the element kept by
\* reduce(|x, y| match compare(x, y) { Greater => x, _ => y }); 0 for None
RECURSIVE max_by(_, _)
max_by(items, field) ==
    IF Len(items) <= 1 THEN Len(items)
    ELSE LET x == max_by(SubSeq(items, 1, Len(items) - 1), field)
             y == Len(items)
         IN  IF items[x][field] > items[y][field] THEN x ELSE y

\* Iterator::min_by on the field: the index (from 1) of the element kept by
\* reduce(|x, y| match compare(x, y) { Greater => y, _ => x }); 0 for None
RECURSIVE min_by(_, _)
min_by(items, field) ==
    IF Len(items) <= 1 THEN Len(items)
    ELSE LET x == min_by(SubSeq(items, 1, Len(items) - 1), field)
             y == Len(items)
         IN  IF items[x][field] > items[y][field] THEN y ELSE x

\* compute_stats: the four unwrap() of None panic on an empty slice (the float
\* divisions by a zero length before them give NaN and do not)
compute_stats_panics(power_items) == max_by(power_items, "power") = 0

compute_stats(power_items) ==
    LET power_sum          == fold_sum(power_items, "power")
        apparent_power_sum == fold_sum(power_items, "apparent_power")
    IN  [total_active_power   |-> Ratio(power_sum, 60),
         avg_active_power     |-> Ratio(power_sum, Len(power_items)),
         max_active_power     |-> power_items[max_by(power_items, "power")],
         total_apparent_power |-> Ratio(apparent_power_sum, 60),
         avg_apparent_power   |-> Ratio(apparent_power_sum, Len(power_items)),
         max_apparent_power   |-> power_items[max_by(power_items, "apparent_power")],
         min_voltage          |-> power_items[min_by(power_items, "voltage")],
         max_voltage          |-> power_items[max_by(power_items, "voltage")],
         avg_voltage          |-> Ratio(fold_sum(power_items, "voltage"),
                                        Len(power_items))]

\* Vec::sort of the elements of a set, whatever order the HashSet yields them in
RECURSIVE sort(_)
sort(S) ==
    IF S = {} THEN <<>>
    ELSE LET m == CHOOSE x \in S : \A y \in S : x <= y
         IN  <<m>> \o sort(S \ {m})

\* faulty variant of distinct_days: the dates in the order they first appear, not sorted
RECURSIVE distinct_days_unsorted(_)
distinct_days_unsorted(pd) ==
    IF pd = <<>> THEN <<>>
    ELSE LET front == distinct_days_unsorted(SubSeq(pd, 1, Len(pd) - 1))
             d     == date(pd[Len(pd)].timestamp)
         IN  IF \E i \in DOMAIN front : front[i] = d THEN front ELSE Append(front, d)

\* distinct_days: the dates collected into a HashSet, then sorted
distinct_days(pd) == sort({date(pd[i].timestamp) : i \in DOMAIN pd})

\* filter_power_data
RECURSIVE filter_power_data(_, _)
filter_power_data(pd, day) ==
    IF pd = <<>> THEN <<>>
    ELSE LET rest == filter_power_data(Tail(pd), day)
         IN  IF day = date(Head(pd).timestamp) THEN <<Head(pd)>> \o rest ELSE rest

PowerInterval(d, r) == [date |-> d, stats |-> r]

\* daily_stats: compute_stats on each day's readings (never empty)
daily_stats(pd) ==
    LET days == distinct_days(pd)
    IN  [k \in DOMAIN days |->
            PowerInterval(days[k], compute_stats(filter_power_data(pd, days[k])))]

\* faulty variant of chunks_exact_2: every two adjacent readings, as slice::windows(2)
windows_2(items) ==
    [c \in 1..(Len(items) - 1) |-> <<items[c], items[c + 1]>>]

\* slice::chunks_exact(2): the pairs (p[0], p[1]), a last odd element left out
chunks_exact_2(items) ==
    [c \in 1..(Len(items) \div 2) |-> <<items[2 * c - 1], items[2 * c]>>]

PowerBlackout(ts, d) == [timestamp |-> ts, duration |-> d]

\* the filter closure of compute_blackouts
is_blackout(p) == p[2].timestamp - p[1].timestamp > 1

\* compute_blackouts
RECURSIVE blackouts_of(_)
blackouts_of(chunks) ==
    IF chunks = <<>> THEN <<>>
    ELSE LET p == Head(chunks)
         IN  (IF is_blackout(p)
              THEN <<PowerBlackout(p[1].timestamp + 1,
                                   p[2].timestamp - p[1].timestamp)>>
              ELSE <<>>) \o blackouts_of(Tail(chunks))

compute_blackouts(power_items) == blackouts_of(chunks_exact_2(power_items))

\* VoltcraftStatistics::new on the readings parse() returned
New ==
    /\ pc = "returned"
    /\ parse_ret.kind = "Ok"
    /\ ~has_stats
    /\ has_stats' = TRUE
    /\ power_data' = parse_ret.value
    /\ UNCHANGED <<decoder_vars, stats_call, stats_ret>>

DailyStats ==
    /\ has_stats
    /\ stats_call' = "daily_stats"
    /\ stats_ret' = Ok(daily_stats(power_data))
    /\ UNCHANGED <<decoder_vars, has_stats, power_data>>

OverallStats ==
    /\ has_stats
    /\ stats_call' = "overall_stats"
    /\ stats_ret' = IF compute_stats_panics(power_data)
                    THEN Panic
                    ELSE Ok(compute_stats(power_data))
    /\ UNCHANGED <<decoder_vars, has_stats, power_data>>

BlackoutStats ==
    /\ has_stats
    /\ stats_call' = "blackout_stats"
    /\ stats_ret' = Ok(compute_blackouts(power_data))
    /\ UNCHANGED <<decoder_vars, has_stats, power_data>>

-----------------------------------------------------------------------------
(* Inputs *)

\* the largest number of power records of a buffer
MaxRecords == 3

\* the largest number of readings handed to the statistics engine
MaxReadings == 4

\* all sequences over S of length at most n
RECURSIVE SeqsUpTo(_, _)
SeqsUpTo(S, n) ==
    IF n = 0 THEN {<<>>}
    ELSE LET shorter == SeqsUpTo(S, n - 1)
         IN  shorter \cup {Append(q, x) : q \in {r \in shorter : Len(r) = n - 1}, x \in S}

RECURSIVE Flatten(_)
Flatten(ss) == IF ss = <<>> THEN <<>> ELSE Head(ss) \o Flatten(Tail(ss))

\* the marker, and markers wrong in the third, the second and the first byte
Headers == {MAGIC_NUMBER, <<224, 197, 235>>, <<224, 0, 234>>, <<225, 197, 234>>}

\* month, day, year - 2000, hour, minute: the test's 2014-09-11 18:43, the last
\* minute of 2014, a leap day, and three that are no date or no time of day
BaseRecords ==
    {<<9, 11, 14, 18, 43>>, <<12, 31, 14, 23, 59>>, <<2, 29, 16, 12, 0>>,
     <<2, 29, 15, 12, 0>>, <<13, 1, 14, 0, 0>>, <<1, 1, 0, 24, 60>>}

\* the test's record; two records that, one after the other, hold FF FF FF FF
\* across their boundary
PowerRecords ==
    {<<8, 198, 1, 190, 87>>, <<8, 198, 1, 255, 255>>, <<255, 255, 0, 1, 87>>}

\* what follows the records: the end marker, alone or followed by more bytes
Trailers == {END_OF_DATA, END_OF_DATA \o <<8, 198, 1, 190, 87>> \o END_OF_DATA}

Prefixes(s) == {SubSeq(s, 1, n) : n \in 0..Len(s)}

\* every prefix of header, base record, records, trailer
Buffers ==
    UNION {Prefixes(h \o b \o Flatten(rs) \o t) :
              h \in Headers, b \in BaseRecords,
              rs \in SeqsUpTo(PowerRecords, MaxRecords), t \in Trailers}

Load(v, c, pf) ==
    [voltage |-> v, current |-> c, power_factor |-> pf,
     power |-> v * c * pf, apparent_power |-> v * c]

\* readings on three days, a minute or more apart, some equal in power, in
\* apparent power or in voltage
Readings ==
    {PowerEvent(0, Load(2000, 500, 100)),
     PowerEvent(1, Load(2500, 400, 100)),
     PowerEvent(3, Load(2000, 400, 50)),
     PowerEvent(3, Load(2000, 500, 100)),
     PowerEvent(MinutesPerDay - 1, Load(2500, 400, 100)),
     PowerEvent(MinutesPerDay, Load(2000, 400, 50)),
     PowerEvent(2 * MinutesPerDay + 5, Load(2500, 160, 100))}

-----------------------------------------------------------------------------
(* Specifications *)

\* a decoder built by from_raw on any buffer, parse() not yet called
Init ==
    /\ raw_data \in Buffers
    /\ tz_single \in BOOLEAN
    /\ pc = "ready"
    /\ offset = 0
    /\ start_time = NoTime
    /\ minute_increment = 0
    /\ result = <<>>
    /\ parse_ret = NotCalled
    /\ has_stats = FALSE
    /\ power_data = <<>>
    /\ stats_call = "none"
    /\ stats_ret = NotCalled

Next ==
    \/ ParseBegin
    \/ ParseLoop
    \/ New
    \/ DailyStats
    \/ OverallStats
    \/ BlackoutStats

Spec == Init /\ [][Next]_vars

\* a statistics engine built by new on any sequence of readings
InitStats ==
    /\ raw_data = <<>>
    /\ tz_single = TRUE
    /\ pc = "ready"
    /\ offset = 0
    /\ start_time = NoTime
    /\ minute_increment = 0
    /\ result = <<>>
    /\ parse_ret = NotCalled
    /\ has_stats = TRUE
    /\ power_data \in SeqsUpTo(Readings, MaxReadings)
    /\ stats_call = "none"
    /\ stats_ret = NotCalled

NextStats ==
    \/ DailyStats
    \/ OverallStats
    \/ BlackoutStats

SpecStats == InitStats /\ [][NextStats]_vars

-----------------------------------------------------------------------------
(* Properties of the decoder, checked under Spec *)

Returned == pc = "returned"

HasMagic ==
    /\ Len(raw_data) >= 3
    /\ raw_data[1] = 224 /\ raw_data[2] = 197 /\ raw_data[3] = 234

\* the 4 bytes at offset 8 + 5k are inside the buffer and are FF FF FF FF
SentinelAtRecord(k) ==
    /\ 8 + 5 * k + 4 <= Len(raw_data)
    /\ \A i \in 1..4 : raw_data[8 + 5 * k + i] = 255

HasSentinel == \E k \in 0..Len(raw_data) : SentinelAtRecord(k)

\* the n of C5: the first record-aligned offset that holds the sentinel
FirstSentinel ==
    CHOOSE k \in 0..Len(raw_data) :
        SentinelAtRecord(k) /\ \A j \in 0..(k - 1) : ~SentinelAtRecord(j)

\* FF FF FF FF at an offset before the first sentinel that is not record-aligned
StraySentinel ==
    \E o \in 8..(8 + 5 * FirstSentinel) :
        /\ (o - 8) % 5 # 0
        /\ \A i \in 1..4 : raw_data[o + i] = 255

\* the bytes 3..8 name a minute that exists, once, in the host's local time
BaseTimeExists ==
    /\ Len(raw_data) >= 8
    /\ raw_data[4] \in 1..12
    /\ raw_data[5] \in 1..DaysInMonth(2000 + raw_data[6], raw_data[4])
    /\ raw_data[7] \in 0..23
    /\ raw_data[8] \in 0..59
    /\ tz_single

\* the minutes from 2000-01-01 00:00 to y-01-01 00:00, counted year by year
RECURSIVE MinutesToYear(_)
MinutesToYear(y) ==
    IF y <= 2000 THEN 0
    ELSE MinutesToYear(y - 1) + (IF IsLeap(y - 1) THEN 366 ELSE 365) * 1440

\* the minutes from y-01-01 00:00 to y-m-01 00:00, counted month by month
RECURSIVE MinutesToMonth(_, _)
MinutesToMonth(y, m) ==
    IF m <= 1 THEN 0
    ELSE MinutesToMonth(y, m - 1) + DaysInMonth(y, m - 1) * 1440

\* month = byte 3, day = byte 4, year = 2000 + byte 5, hour = byte 6,
\* minute = byte 7, seconds 0
BaseTimestamp ==
    MinutesToYear(2000 + raw_data[6]) + MinutesToMonth(2000 + raw_data[6], raw_data[4])
        + (raw_data[5] - 1) * 1440 + raw_data[7] * 60 + raw_data[8]

\* C1: on a buffer of 3 bytes or more that does not start with E0 C5 EA, parse()
\* returns the InvalidFormat error and decodes nothing before it: neither the base
\* timestamp nor a power record, whatever the other bytes are.
C1_InvalidHeaderRejected ==
    (Len(raw_data) >= 3 /\ ~HasMagic) =>
        /\ pc # "loop"
        /\ start_time = NoTime
        /\ result = <<>>
        /\ Returned => parse_ret = Err(INVALID_DATA)

\* parse() has returned on a full-length buffer whose marker is wrong in its
\* third byte only
C1_Witness ==
    /\ Returned
    /\ Len(raw_data) >= 17
    /\ raw_data[1] = 224 /\ raw_data[2] = 197 /\ raw_data[3] # 234
    /\ parse_ret.kind = "Err"

\* C2: on a buffer of 0, 1 or 2 bytes parse() returns the InvalidFormat error
\* value (the validity check does not fault).
C2_ShortBufferRejected ==
    (Len(raw_data) < 3 /\ Returned) => parse_ret = Err(INVALID_DATA)

\* a buffer with the marker in which a read passes the end: no base record, or no
\* record-aligned sentinel inside the buffer
Truncated == HasMagic /\ (Len(raw_data) < 8 \/ ~HasSentinel)

\* C3: on a buffer with the marker in which a fixed-width read would pass the end
\* of the buffer, parse() returns a decode error value and no readings.
C3_TruncatedIsDecodeError ==
    (Truncated /\ Returned) => (parse_ret.kind = "Err" /\ parse_ret.value = <<>>)

\* C4: when parse() succeeds, its k-th reading (from 0) has the timestamp decoded
\* from bytes 3..8 plus k minutes; successive readings are one minute apart and
\* the timestamps strictly increase.
C4_TimestampsFromBase ==
    (Returned /\ parse_ret.kind = "Ok") =>
        LET r == parse_ret.value
        IN  /\ \A k \in 0..(Len(r) - 1) : r[k + 1].timestamp = BaseTimestamp + k
            /\ \A k \in 1..(Len(r) - 1) : r[k + 1].timestamp - r[k].timestamp = 1
            /\ \A j, k \in 1..Len(r) : j < k => r[j].timestamp < r[k].timestamp

\* parse() has returned three readings that start in the last minute of a year
C4_Witness ==
    /\ Returned
    /\ parse_ret.kind = "Ok"
    /\ Len(parse_ret.value) >= 3
    /\ raw_data[4] = 12 /\ raw_data[5] = 31 /\ raw_data[7] = 23 /\ raw_data[8] = 59

\* what C5 says parse() returns: N readings, the k-th (from 0) decoded from the
\* 5 bytes at offset 8 + 5k
RecordsDecoded ==
    /\ parse_ret.kind = "Ok"
    /\ Len(parse_ret.value) = FirstSentinel
    /\ \A k \in 0..(FirstSentinel - 1) :
          LET e == parse_ret.value[k + 1]
          IN  /\ e.voltage = 256 * raw_data[8 + 5 * k + 1] + raw_data[9 + 5 * k + 1]
              /\ e.current = 256 * raw_data[10 + 5 * k + 1] + raw_data[11 + 5 * k + 1]
              /\ e.power_factor = raw_data[12 + 5 * k + 1]

-----------------------------------------------------------------------------
(* Properties of the statistics engine, checked under SpecStats *)

DayOf(e) == e.timestamp \div 1440

ReadingsOfDay(d) ==
    LET OnDay(e) == DayOf(e) = d
    IN  SelectSeq(power_data, OnDay)

\* C6: daily_stats() returns one PowerInterval per distinct date of the input,
\* whatever the order of the dates in it: the dates strictly ascend (so none is
\* repeated), they are exactly the dates of the readings, and each interval holds
\* the statistics of the readings of its date, in their original order.
C6_DailyStatsPerDate ==
    stats_call = "daily_stats" =>
        LET r == stats_ret.value
        IN  /\ stats_ret.kind = "Ok"
            /\ \A i, j \in DOMAIN r : i < j => r[i].date < r[j].date
            /\ {r[i].date : i \in DOMAIN r} = {DayOf(power_data[j]) : j \in DOMAIN power_data}
            /\ \A i \in DOMAIN r : r[i].stats = compute_stats(ReadingsOfDay(r[i].date))

\* daily_stats() has returned three days for four readings whose dates come in
\* descending order, one date twice
C6_Witness ==
    /\ stats_call = "daily_stats"
    /\ Len(power_data) = 4
    /\ Len(stats_ret.value) = 3
    /\ \A i \in 1..3 : DayOf(power_data[i]) >= DayOf(power_data[i + 1])

Gap(i) == power_data[2 * i + 2].timestamp - power_data[2 * i + 1].timestamp

\* the blackouts of the pairs (r[2i], r[2i+1]) from pair i on, in index order
RECURSIVE BlackoutsFrom(_)
BlackoutsFrom(i) ==
    IF i >= Len(power_data) \div 2 THEN <<>>
    ELSE (IF Gap(i) > 1
          THEN <<[timestamp |-> power_data[2 * i + 1].timestamp + 1, duration |-> Gap(i)]>>
          ELSE <<>>) \o BlackoutsFrom(i + 1)

\* C7: blackout_stats() returns, in index order, one blackout for each i below
\* floor(L/2) with r[2i+1] more than a minute after r[2i], starting a minute after
\* r[2i] and as long as the gap, and nothing else: a gap between r[2i+1] and
\* r[2i+2] is not reported, a last unpaired reading is ignored, a gap of a minute
\* or less gives no blackout.
C7_BlackoutsOfPairs ==
    stats_call = "blackout_stats" => stats_ret = Ok(BlackoutsFrom(0))

\* blackout_stats() has returned one blackout for four readings with a gap inside
\* the first pair, a gap between the second and the third reading, and the last
\* two a minute apart
C7_Witness ==
    /\ stats_call = "blackout_stats"
    /\ Len(power_data) = 4
    /\ power_data[2].timestamp - power_data[1].timestamp = 3
    /\ power_data[3].timestamp - power_data[2].timestamp > 1
    /\ power_data[4].timestamp - power_data[3].timestamp = 1
    /\ Len(stats_ret.value) = 1

\* C8: overall_stats() on an empty sequence fails with a checked error value (no
\* division by zero, no indexing into nothing, no panic).
C8_EmptyIsCheckedError ==
    (stats_call = "overall_stats" /\ power_data = <<>>) => stats_ret.kind = "Err"

Attains(i, field, v) == power_data[i][field] = v

MaxOf(field) ==
    CHOOSE v \in {power_data[i][field] : i \in DOMAIN power_data} :
        \A i \in DOMAIN power_data : power_data[i][field] <= v

MinOf(field) ==
    CHOOSE v \in {power_data[i][field] : i \in DOMAIN power_data} :
        \A i \in DOMAIN power_data : power_data[i][field] >= v

\* the first and the last reading whose field is v
FirstWith(field, v) ==
    power_data[CHOOSE i \in DOMAIN power_data :
        Attains(i, field, v) /\ \A j \in 1..(i - 1) : ~Attains(j, field, v)]

LastWith(field, v) ==
    power_data[CHOOSE i \in DOMAIN power_data :
        Attains(i, field, v) /\ \A j \in (i + 1)..Len(power_data) : ~Attains(j, field, v)]

OverallReturned == stats_call = "overall_stats" /\ power_data # <<>>

\* C9 as stated: each of the four extrema of compute_stats is the first reading,
\* in sequence order, that attains the extreme value of its field.
C9_FirstExtremumWins ==
    OverallReturned =>
        /\ stats_ret.kind = "Ok"
        /\ stats_ret.value.max_active_power = FirstWith("power", MaxOf("power"))
        /\ stats_ret.value.max_apparent_power
               = FirstWith("apparent_power", MaxOf("apparent_power"))
        /\ stats_ret.value.min_voltage = FirstWith("voltage", MinOf("voltage"))
        /\ stats_ret.value.max_voltage = FirstWith("voltage", MaxOf("voltage"))

\* C9 (amended): on a non-empty sequence min_voltage is the first reading that
\* attains the minimum voltage, and each of max_active_power, max_apparent_power
\* and max_voltage is the last reading that attains the maximum of its field.
C9_MinFirstMaxLast ==
    OverallReturned =>
        /\ stats_ret.kind = "Ok"
        /\ stats_ret.value.max_active_power = LastWith("power", MaxOf("power"))
        /\ stats_ret.value.max_apparent_power
               = LastWith("apparent_power", MaxOf("apparent_power"))
        /\ stats_ret.value.min_voltage = FirstWith("voltage", MinOf("voltage"))
        /\ stats_ret.value.max_voltage = LastWith("voltage", MaxOf("voltage"))

\* overall_stats() has returned for readings of which two different ones share
\* the maximum of each field, and two different ones the minimum voltage
C9_Witness ==
    /\ OverallReturned
    /\ \A f \in {"power", "apparent_power", "voltage"} :
          FirstWith(f, MaxOf(f)) # LastWith(f, MaxOf(f))
    /\ FirstWith("voltage", MinOf("voltage")) # LastWith("voltage", MinOf("voltage"))

-----------------------------------------------------------------------------
(* Property of the decoder followed by the statistics engine, checked under Spec *)

\* C10: blackout_stats() on the readings a successful parse() returned is the
\* empty list: the decoder puts record k at base + k minutes, so no two paired
\* readings are more than a minute apart.
C10_NoBlackoutAfterParse ==
    stats_call = "blackout_stats" => stats_ret = Ok(<<>>)

\* blackout_stats() has returned for the three readings of a parsed buffer
C10_Witness ==
    /\ stats_call = "blackout_stats"
    /\ power_data = parse_ret.value
    /\ Len(power_data) >= 3
    /\ stats_ret.kind = "Ok"

====
